---- MODULE Spec2Model ----
(***************************************************************************)
(* The global audio playback session of frontend/src/contexts/             *)
(* AudioContext.tsx (AudioProvider): the React state of the provider, the  *)
(* two interval effects, the async handlers with their suspension points,  *)
(* the expo-av sounds they drive and the AsyncStorage position records.    *)
(*                                                                         *)
(* null is written 0 (no podcast, no sound).  Time advances in steps of    *)
(* one poll period (500 ms); the autosave interval is counted in the same  *)
(* unit.  A handler captures the state of the render it was called from;   *)
(* what it reads after an await is that captured value, kept in its call   *)
(* record.                                                                 *)
(***************************************************************************)
EXTENDS Integers, FiniteSets, Sequences, Bags, TLC

\* ---------------------------------------------------------------- bounds
MaxSounds == 2          \* sounds createAsync may allocate in one behaviour
MaxOps == 3             \* handler calls the screens make in one behaviour
MaxCalls == 2           \* handler invocations suspended at an await at once
ShortTicks == 2         \* length of podcast 2's audio, in poll periods
LongTicks == 4          \* length of podcast 1's audio, in poll periods
PlayTicks == 12         \* length of podcast 1's audio under SpecPlay

\* ------------------------------------------------------ program constants
PollMs == 500           \* setInterval(..., 500)
SaveMs == 5000          \* setInterval(..., 5000)
RestoreThreshold == 1000
SkipMs == 15000
SaveTicks == SaveMs \div PollMs

Podcasts == {1, 2, 3}               \* podcast ids; 3 has no audio_url
HasUrl(p) == p # 3
Rates == {1, 2}                     \* two of SPEED_OPTIONS
NoRec == [position |-> -1, duration |-> -1]    \* AsyncStorage.getItem -> null

Min(a, b) == IF a < b THEN a ELSE b
Max(a, b) == IF a > b THEN a ELSE b

VARIABLES
  currentPodcast,   \* useState<Podcast | null>: the id, 0 for null
  sound,            \* useState<Audio.Sound | null>: the sound's index, 0 for null
  isPlaying, position, duration, playbackRate, showPlayer,
  saveLeft,         \* poll periods until the autosave interval fires; 0: no interval
  saveDur,          \* the duration captured by the autosave interval's closure
  pollWait,         \* the sound whose getStatusAsync a poll tick awaits; 0: none
  snd,              \* the expo-av sounds
  store,            \* AsyncStorage: podcast id -> {position, duration}
  calls,            \* the bag of handler invocations suspended at an await
  audioMs,          \* podcast id -> length of its audio (an input)
  budget,           \* handler calls the screens may make in this behaviour
  ops,              \* handler calls made so far
  lastStop,         \* what the last stopPlayback saved (observed under SpecRound)
  ev                \* the step taken last

react == <<currentPodcast, sound, isPlaying, position, duration, playbackRate, showPlayer>>
vars == <<currentPodcast, sound, isPlaying, position, duration, playbackRate, showPlayer,
          saveLeft, saveDur, pollWait, snd, store, calls, audioMs, budget, ops, lastStop, ev>>

Sounds == 1..MaxSounds

FreeSound == [st |-> "free", item |-> 0, playing |-> FALSE, pos |-> 0, rate |-> 1,
              fin |-> FALSE, upd |-> FALSE, cb |-> 0]
IdleCall == [kind |-> "none", pc |-> "idle", podcast |-> 0, s0 |-> 0, r0 |-> 0,
             ns |-> 0, arg |-> 0]

Loaded(s) == s # 0 /\ snd[s].st = "loaded"
Allocated == {s \in Sounds : snd[s].st = "loaded"}
InFlight == BagToSet(calls)
CanSuspend == BagCardinality(calls) < MaxCalls
NextSound == CHOOSE s \in Sounds : snd[s].st = "free" /\ \A t \in Sounds : t < s => snd[t].st # "free"

Durations(long) == [p \in Podcasts |-> IF p = 1 THEN long * PollMs ELSE ShortTicks * PollMs]

\* ------------------------------------------------------------ pure parts
savePlaybackPosition_Dropped(st, cp, pos, dur, ok) == st

\* savePlaybackPosition: the record AsyncStorage holds afterwards.
savePlaybackPosition(st, cp, pos, dur, ok) ==
  IF cp = 0 \/ pos = 0 THEN st
  ELSE IF ok THEN [st EXCEPT ![cp] = [position |-> pos, duration |-> dur]]
  ELSE st

loadSavedPosition_AtThreshold(st, id, ok) ==
  IF ok /\ st[id] # NoRec
  THEN IF st[id].position >= RestoreThreshold THEN st[id].position ELSE 0
  ELSE 0

\* Variant of loadSavedPosition that has no catch returning 0: a failed read
\* yields the stored position all the same.
loadSavedPosition_IgnoresFailure(st, id, ok) ==
  IF st[id] # NoRec
  THEN IF st[id].position > RestoreThreshold THEN st[id].position ELSE 0
  ELSE 0

\* loadSavedPosition: the position loadPodcast restores, 0 for none.
loadSavedPosition(st, id, ok) ==
  IF ok /\ st[id] # NoRec
  THEN IF st[id].position > RestoreThreshold THEN st[id].position ELSE 0
  ELSE 0

\* sound.setPositionAsync(x) on a loaded sound: the native player clamps.
DevSeek(s, x) == [snd EXCEPT ![s].pos = Max(0, Min(x, audioMs[snd[s].item])),
                             ![s].upd = TRUE]

\* sound.unloadAsync(): releases the native player; a no-op when not loaded.
DevUnload(s) == IF Loaded(s)
                THEN [snd EXCEPT ![s] = [FreeSound EXCEPT !.st = "unloaded"]]
                ELSE snd

\* The "save position periodically" effect, re-run by a render in which
\* position or currentPodcast changed.
\* Variant of SaveEffect whose interval survives currentPodcast becoming null.
SaveEffect_NoCleanup ==
  IF currentPodcast' = currentPodcast /\ position' = position
  THEN UNCHANGED <<saveLeft, saveDur>>
  ELSE IF position' = 0
       THEN saveLeft' = 0 /\ saveDur' = 0
       ELSE saveLeft' = SaveTicks /\ saveDur' = duration'

SaveEffect ==
  IF currentPodcast' = currentPodcast /\ position' = position
  THEN UNCHANGED <<saveLeft, saveDur>>
  ELSE IF currentPodcast' = 0 \/ position' = 0
       THEN saveLeft' = 0 /\ saveDur' = 0
       ELSE saveLeft' = SaveTicks /\ saveDur' = duration'

\* A handler reaches its first await, moves from one await to the next, returns.
Enter(rec) == calls' = calls (+) SetToBag({rec})
Suspend(c, rec) == calls' = (calls (-) SetToBag({c})) (+) SetToBag({rec})
Finish(c) == calls' = calls (-) SetToBag({c})


\* ------------------------------------------------------------- loadPodcast
SameLoaded_WhilePlaying(p) == currentPodcast = p /\ sound # 0 /\ isPlaying

\* currentPodcast?.id === podcast.id && sound
SameLoaded(p) == currentPodcast = p /\ sound # 0

\* The call itself, up to the first await.
LoadCall(p) ==
  \/ /\ SameLoaded(p)                              \* same podcast: just show player
     /\ showPlayer' = TRUE
     /\ ev' = "loadSame"
     /\ UNCHANGED <<currentPodcast, sound, isPlaying, position, duration, playbackRate,
                    saveLeft, saveDur, pollWait, snd, store, calls, audioMs, budget>>
  \/ /\ ~SameLoaded(p)
     /\ sound # 0                                  \* await savePlaybackPosition()
     /\ CanSuspend
     /\ \E ok \in BOOLEAN :
          store' = savePlaybackPosition(store, currentPodcast, position, duration, ok)
     /\ Enter([IdleCall EXCEPT !.kind = "load", !.pc = "saved", !.podcast = p,
                               !.s0 = sound, !.r0 = playbackRate])
     /\ ev' = "loadCall"
     /\ UNCHANGED <<react, saveLeft, saveDur, pollWait, snd, audioMs, budget>>
  \/ /\ sound = 0                                  \* await Audio.Sound.createAsync(...)
     /\ CanSuspend
     /\ Enter([IdleCall EXCEPT !.kind = "load", !.pc = "creating", !.podcast = p,
                               !.s0 = 0, !.r0 = playbackRate])
     /\ ev' = "loadCall"
     /\ UNCHANGED <<react, saveLeft, saveDur, pollWait, snd, store, audioMs, budget>>

LoadUnload_NotAwaited(c) ==
  /\ c.kind = "load" /\ c.pc = "saved"
  /\ ev' = "loadUnload"
  /\ snd' = snd
  /\ Suspend(c, [c EXCEPT !.pc = "unloading"])
  /\ UNCHANGED <<react, saveLeft, saveDur, pollWait, store, audioMs, budget>>

\* After the save: await sound.unloadAsync() on the captured sound.
LoadUnload(c) ==
  /\ c.kind = "load" /\ c.pc = "saved"
  /\ ev' = "loadUnload"
  /\ snd' = DevUnload(c.s0)
  /\ Suspend(c, [c EXCEPT !.pc = "unloading"])
  /\ UNCHANGED <<react, saveLeft, saveDur, pollWait, store, audioMs, budget>>

\* After the unload: setSound(null), then await Audio.Sound.createAsync(...).
LoadRelease(c) ==
  /\ c.kind = "load" /\ c.pc = "unloading"
  /\ ev' = "loadRelease"
  /\ sound' = 0
  /\ Suspend(c, [c EXCEPT !.pc = "creating"])
  /\ UNCHANGED <<currentPodcast, isPlaying, position, duration, playbackRate, showPlayer,
                 saveLeft, saveDur, pollWait, snd, store, audioMs, budget>>

\* createAsync rejects (no uri, network, decode): the catch logs and returns.
LoadCreateFails(c) ==
  /\ c.kind = "load" /\ c.pc = "creating"
  /\ ev' = "createFailed"
  /\ Finish(c)
  /\ UNCHANGED <<react, saveLeft, saveDur, pollWait, snd, store, audioMs, budget>>

CreatedSound_ShouldPlay(p, r, cb) ==
  [FreeSound EXCEPT !.st = "loaded", !.item = p, !.rate = r, !.cb = cb,
                    !.playing = TRUE, !.upd = TRUE]

CreatedSound_DefaultRate(p, r, cb) ==
  [FreeSound EXCEPT !.st = "loaded", !.item = p, !.cb = cb]

\* The sound createAsync({uri}, {shouldPlay: false, rate}, onPlaybackStatusUpdate)
\* yields; cb is the sound in the callback's closure.
CreatedSound(p, r, cb) ==
  [FreeSound EXCEPT !.st = "loaded", !.item = p, !.rate = r, !.cb = cb]

\* createAsync resolves: the sound is loaded paused at the captured rate and
\* reports its first status to onPlaybackStatusUpdate; then setSound,
\* setCurrentPodcast and await loadSavedPosition(podcast.id), whose getItem
\* succeeds (ok) or throws.
LoadCreated(c, ok) ==
  /\ c.kind = "load" /\ c.pc = "creating"
  /\ ev' = "loadCreated"
  /\ HasUrl(c.podcast)
  /\ \E s \in Sounds : snd[s].st = "free"
  /\ LET ns == NextSound
         p == c.podcast
     IN /\ snd' = [snd EXCEPT ![ns] = CreatedSound(p, c.r0, c.s0)]
        /\ isPlaying' = FALSE
        /\ sound' = ns
        /\ currentPodcast' = p
        /\ Suspend(c, [c EXCEPT !.pc = "reading", !.ns = ns,
                                 !.arg = loadSavedPosition(store, p, ok)])
  /\ UNCHANGED <<position, duration, playbackRate, showPlayer, pollWait, store, audioMs, budget>>
  /\ SaveEffect

\* After the read: seek the new sound when a position is to be restored.
LoadRestore(c) ==
  /\ c.kind = "load" /\ c.pc = "reading"
  /\ IF c.arg > 0
     THEN IF Loaded(c.ns)
          THEN /\ snd' = DevSeek(c.ns, c.arg)
               /\ Suspend(c, [c EXCEPT !.pc = "seeking"])
               /\ ev' = "loadSeek"
               /\ UNCHANGED showPlayer
          ELSE /\ Finish(c)                        \* setPositionAsync throws: catch
               /\ ev' = "restoreFailed"
               /\ UNCHANGED <<snd, showPlayer>>
     ELSE /\ showPlayer' = TRUE
          /\ Finish(c)
          /\ ev' = "loadDone"
          /\ UNCHANGED snd
  /\ UNCHANGED <<currentPodcast, sound, isPlaying, position, duration, playbackRate,
                 saveLeft, saveDur, pollWait, store, audioMs, budget>>

\* After the seek: setPosition(savedPosition); setShowPlayer(true).
LoadSeeked(c) ==
  /\ c.kind = "load" /\ c.pc = "seeking"
  /\ ev' = "loadDone"
  /\ position' = c.arg
  /\ showPlayer' = TRUE
  /\ Finish(c)
  /\ UNCHANGED <<currentPodcast, sound, isPlaying, duration, playbackRate,
                 pollWait, snd, store, audioMs, budget>>
  /\ SaveEffect

\* ------------------------------------------------------------ stopPlayback
ResetSession_KeepsDuration ==
  /\ currentPodcast' = 0
  /\ isPlaying' = FALSE
  /\ position' = 0
  /\ duration' = duration
  /\ showPlayer' = FALSE

ResetSession ==
  /\ currentPodcast' = 0
  /\ isPlaying' = FALSE
  /\ position' = 0
  /\ duration' = 0
  /\ showPlayer' = FALSE

StopCall_ThrowsOnFailure(ok) ==
  \/ /\ sound # 0 /\ ok
     /\ CanSuspend
     /\ store' = savePlaybackPosition(store, currentPodcast, position, duration, ok)
     /\ Enter([IdleCall EXCEPT !.kind = "stop", !.pc = "saved", !.s0 = sound])
     /\ ev' = "stopCall"
     /\ UNCHANGED <<react, saveLeft, saveDur, pollWait, snd, audioMs, budget>>
  \/ /\ sound # 0 /\ ~ok
     /\ ev' = "stopCall"
     /\ UNCHANGED <<react, saveLeft, saveDur, pollWait, snd, store, calls, audioMs, budget>>
  \/ /\ sound = 0
     /\ ResetSession
     /\ ev' = "stopDone"
     /\ UNCHANGED <<sound, playbackRate, pollWait, snd, store, calls, audioMs, budget>>
     /\ SaveEffect

\* stopPlayback up to its first await (ok: the setItem of its save succeeds).
StopCall(ok) ==
  \/ /\ sound # 0                                  \* await savePlaybackPosition()
     /\ CanSuspend
     /\ store' = savePlaybackPosition(store, currentPodcast, position, duration, ok)
     /\ Enter([IdleCall EXCEPT !.kind = "stop", !.pc = "saved", !.s0 = sound])
     /\ ev' = "stopCall"
     /\ UNCHANGED <<react, saveLeft, saveDur, pollWait, snd, audioMs, budget>>
  \/ /\ sound = 0
     /\ ResetSession
     /\ ev' = "stopDone"
     /\ UNCHANGED <<sound, playbackRate, pollWait, snd, store, calls, audioMs, budget>>
     /\ SaveEffect

StopUnload(c) ==
  /\ c.kind = "stop" /\ c.pc = "saved"
  /\ ev' = "stopUnload"
  /\ snd' = DevUnload(c.s0)
  /\ Suspend(c, [c EXCEPT !.pc = "unloading"])
  /\ UNCHANGED <<react, saveLeft, saveDur, pollWait, store, audioMs, budget>>

StopDone(c) ==
  /\ c.kind = "stop" /\ c.pc = "unloading"
  /\ ev' = "stopDone"
  /\ sound' = 0
  /\ ResetSession
  /\ Finish(c)
  /\ UNCHANGED <<playbackRate, pollWait, snd, store, audioMs, budget>>
  /\ SaveEffect


\* ------------------------------------------------------ transport controls
\* Slider values: before the start; inside podcast 1's audio and past podcast 2's.
SeekArgs == {0 - PollMs, 3 * PollMs}

SeekIssue_NoGuard(x, tag) ==
  /\ IF Loaded(sound)
     THEN /\ CanSuspend
          /\ snd' = DevSeek(sound, x)
          /\ Enter([IdleCall EXCEPT !.kind = "seek", !.pc = "seeking", !.arg = x])
          /\ ev' = tag
     ELSE /\ UNCHANGED <<snd, calls>>
          /\ ev' = "seekRejected"
  /\ UNCHANGED <<react, saveLeft, saveDur, pollWait, store, audioMs, budget>>

\* seekTo up to its await: sound.setPositionAsync(newPosition).
SeekIssue(x, tag) ==
  /\ IF sound = 0
     THEN /\ UNCHANGED <<snd, calls>>             \* if (!sound) return
          /\ ev' = "seekNoSound"
     ELSE IF Loaded(sound)
     THEN /\ CanSuspend
          /\ snd' = DevSeek(sound, x)
          /\ Enter([IdleCall EXCEPT !.kind = "seek", !.pc = "seeking", !.arg = x])
          /\ ev' = tag
     ELSE /\ UNCHANGED <<snd, calls>>             \* rejects: setPosition is not reached
          /\ ev' = "seekRejected"
  /\ UNCHANGED <<react, saveLeft, saveDur, pollWait, store, audioMs, budget>>

seekTo(x) == SeekIssue(x, "seekTo")

\* After the seek: setPosition(newPosition).
SeekDone(c) ==
  /\ c.kind = "seek" /\ c.pc = "seeking"
  /\ ev' = "seekDone"
  /\ position' = c.arg
  /\ Finish(c)
  /\ UNCHANGED <<currentPodcast, sound, isPlaying, duration, playbackRate, showPlayer,
                 pollWait, snd, store, audioMs, budget>>
  /\ SaveEffect

skipForward == SeekIssue(Min(position + SkipMs, duration), "skipForward")

skipBackward == SeekIssue(Max(position - SkipMs, 0), "skipBackward")

togglePlayPause_Optimistic ==
  /\ IF sound = 0
     THEN /\ snd' = snd /\ isPlaying' = isPlaying
          /\ ev' = "toggleNoSound"
     ELSE /\ snd' = IF Loaded(sound)
                    THEN [snd EXCEPT ![sound].playing = ~isPlaying, ![sound].upd = TRUE]
                    ELSE snd
          /\ isPlaying' = ~isPlaying
          /\ ev' = "toggle"
  /\ UNCHANGED <<currentPodcast, sound, position, duration, playbackRate, showPlayer,
                 saveLeft, saveDur, pollWait, store, calls, audioMs, budget>>

\* togglePlayPause: pauseAsync or playAsync by the isPlaying of the render.
togglePlayPause ==
  /\ IF sound = 0
     THEN /\ snd' = snd                           \* if (!sound) return
          /\ ev' = "toggleNoSound"
     ELSE /\ snd' = IF Loaded(sound)
                    THEN [snd EXCEPT ![sound].playing = ~isPlaying, ![sound].upd = TRUE]
                    ELSE snd                       \* rejects: the sound is not loaded
          /\ ev' = "toggle"
  /\ UNCHANGED <<react, saveLeft, saveDur, pollWait, store, calls, audioMs, budget>>

setRate_Restarts(r) ==
  /\ playbackRate' = r
  /\ ev' = "setRate"
  /\ snd' = IF Loaded(sound)
            THEN [snd EXCEPT ![sound].rate = r, ![sound].pos = 0, ![sound].upd = TRUE]
            ELSE snd
  /\ UNCHANGED <<currentPodcast, sound, isPlaying, position, duration, showPlayer,
                 saveLeft, saveDur, pollWait, store, calls, audioMs, budget>>

\* setRate: setPlaybackRate(rate), then sound.setRateAsync(rate, true).
setRate(r) ==
  /\ playbackRate' = r
  /\ ev' = "setRate"
  /\ snd' = IF Loaded(sound)
            THEN [snd EXCEPT ![sound].rate = r, ![sound].upd = TRUE]
            ELSE snd
  /\ UNCHANGED <<currentPodcast, sound, isPlaying, position, duration, showPlayer,
                 saveLeft, saveDur, pollWait, store, calls, audioMs, budget>>

setShowPlayer(b) ==
  /\ showPlayer # b
  /\ ev' = "setShowPlayer"
  /\ showPlayer' = b
  /\ UNCHANGED <<currentPodcast, sound, isPlaying, position, duration, playbackRate,
                 saveLeft, saveDur, pollWait, snd, store, calls, audioMs, budget>>

\* ------------------------------------------------- timers and the device
\* One poll period of a playing sound: it advances by 500 ms times its rate
\* and finishes at the end of its audio.
Advance(r) ==
  IF r.st = "loaded" /\ r.playing
  THEN LET np == Min(r.pos + PollMs * r.rate, audioMs[r.item])
       IN IF np = audioMs[r.item]
          THEN [r EXCEPT !.pos = np, !.playing = FALSE, !.fin = TRUE, !.upd = TRUE]
          ELSE [r EXCEPT !.pos = np]
  ELSE r

\* 500 ms pass: the sounds advance, the position updater's interval (set while
\* sound && isPlaying) issues getStatusAsync, and the autosave interval fires
\* when its 5000 ms are over (ok: its AsyncStorage.setItem succeeds).
Tick(ok) ==
  /\ pollWait = 0
  /\ snd' = [s \in Sounds |-> Advance(snd[s])]
  /\ pollWait' = IF sound # 0 /\ isPlaying THEN sound ELSE 0
  /\ IF saveLeft = 1
     THEN /\ store' = savePlaybackPosition(store, currentPodcast, position, saveDur, ok)
          /\ saveLeft' = SaveTicks
          /\ ev' = "autosave"
     ELSE /\ saveLeft' = IF saveLeft = 0 THEN 0 ELSE saveLeft - 1
          /\ store' = store
          /\ ev' = "tick"
  /\ UNCHANGED <<react, saveDur, calls, audioMs, budget>>

\* Variant of PollResolve without the status.isLoaded test: the status of an
\* unloaded sound carries no positionMillis or durationMillis.
PollResolve_Unguarded ==
  /\ pollWait # 0
  /\ ev' = "poll"
  /\ pollWait' = 0
  /\ IF Loaded(pollWait)
     THEN /\ position' = snd[pollWait].pos
          /\ duration' = audioMs[snd[pollWait].item]
     ELSE /\ position' = 0
          /\ duration' = 0
  /\ UNCHANGED <<currentPodcast, sound, isPlaying, playbackRate, showPlayer,
                 snd, store, calls, audioMs, budget>>
  /\ SaveEffect

\* The poll tick after its await: setPosition and setDuration when loaded.
PollResolve ==
  /\ pollWait # 0
  /\ ev' = "poll"
  /\ pollWait' = 0
  /\ IF Loaded(pollWait)
     THEN /\ position' = snd[pollWait].pos
          /\ duration' = audioMs[snd[pollWait].item]
     ELSE UNCHANGED <<position, duration>>
  /\ UNCHANGED <<currentPodcast, sound, isPlaying, playbackRate, showPlayer,
                 snd, store, calls, audioMs, budget>>
  /\ SaveEffect

\* The sound s delivers its status to the onPlaybackStatusUpdate it was
\* created with, whose closure holds the sound of the render that called
\* loadPodcast (snd[s].cb).
onPlaybackStatusUpdate_KeepsPosition(s) ==
  /\ Loaded(s)
  /\ snd[s].playing \/ snd[s].upd
  /\ isPlaying' = IF snd[s].fin THEN FALSE ELSE snd[s].playing
  /\ position' = position
  /\ snd' = [snd EXCEPT ![s].fin = FALSE, ![s].upd = FALSE]
  /\ ev' = IF snd[s].fin THEN "finished" ELSE "status"
  /\ UNCHANGED <<currentPodcast, sound, duration, playbackRate, showPlayer,
                 pollWait, store, calls, audioMs, budget>>
  /\ SaveEffect

onPlaybackStatusUpdate(s) ==
  /\ Loaded(s)
  /\ snd[s].playing \/ snd[s].upd
  /\ IF snd[s].fin
     THEN /\ isPlaying' = FALSE
          /\ position' = 0
          /\ snd' = IF Loaded(snd[s].cb)
                    THEN [DevSeek(snd[s].cb, 0) EXCEPT ![s].fin = FALSE, ![s].upd = FALSE]
                    ELSE [snd EXCEPT ![s].fin = FALSE, ![s].upd = FALSE]
          /\ ev' = "finished"
     ELSE /\ isPlaying' = snd[s].playing
          /\ position' = position
          /\ snd' = [snd EXCEPT ![s].upd = FALSE]
          /\ ev' = "status"
  /\ UNCHANGED <<currentPodcast, sound, duration, playbackRate, showPlayer,
                 pollWait, store, calls, audioMs, budget>>
  /\ SaveEffect

\* ------------------------------------------------------- specifications
NoStore == [p \in Podcasts |-> NoRec]
NoStop == [item |-> 0, pos |-> 0]

InitWith(long, calls0, stores) ==
  /\ currentPodcast = 0 /\ sound = 0 /\ isPlaying = FALSE
  /\ position = 0 /\ duration = 0 /\ playbackRate = 1 /\ showPlayer = FALSE
  /\ saveLeft = 0 /\ saveDur = 0 /\ pollWait = 0
  /\ snd = [s \in Sounds |-> FreeSound]
  /\ store \in stores
  /\ calls = EmptyBag
  /\ audioMs = Durations(long)
  /\ budget = calls0
  /\ ops = 0
  /\ lastStop = NoStop
  /\ ev = "init"

Init == InitWith(LongTicks, MaxOps, {NoStore})

\* A call a screen makes: counted, and bounded by MaxOps.
UserCall(A) == ops < budget /\ ops' = ops + 1 /\ lastStop' = lastStop /\ A
\* A continuation, a timer or a device event.
Internal(A) == ops' = ops /\ lastStop' = lastStop /\ A

Next ==
  \/ \E p \in Podcasts : UserCall(LoadCall(p))
  \/ \E c \in InFlight : Internal(LoadUnload(c))
  \/ \E c \in InFlight : Internal(LoadRelease(c))
  \/ \E c \in InFlight : Internal(LoadCreateFails(c))
  \/ \E c \in InFlight, ok \in BOOLEAN : Internal(LoadCreated(c, ok))
  \/ \E c \in InFlight : Internal(LoadRestore(c))
  \/ \E c \in InFlight : Internal(LoadSeeked(c))
  \/ \E ok \in BOOLEAN : UserCall(StopCall(ok))
  \/ \E c \in InFlight : Internal(StopUnload(c))
  \/ \E c \in InFlight : Internal(StopDone(c))
  \/ \E x \in SeekArgs : UserCall(seekTo(x))
  \/ \E c \in InFlight : Internal(SeekDone(c))
  \/ UserCall(skipForward)
  \/ UserCall(skipBackward)
  \/ UserCall(togglePlayPause)
  \/ \E r \in Rates : UserCall(setRate(r))
  \/ \E b \in BOOLEAN : UserCall(setShowPlayer(b))
  \/ \E ok \in BOOLEAN : Internal(Tick(ok))
  \/ Internal(PollResolve)
  \/ \E s \in Sounds : Internal(onPlaybackStatusUpdate(s))

Spec == Init /\ [][Next]_vars


\* Podcast 1 with audio longer than the autosave period, loaded and played:
\* the screens call loadPodcast and togglePlayPause once each, and a status
\* event of the sound is delivered before the next poll period ends, so that
\* from the play on every tick polls the position; AsyncStorage writes succeed.
PlayOps == 2
PromptTick == (\A s \in Sounds : ~snd[s].upd) /\ Tick(TRUE)
InitPlay == InitWith(PlayTicks, PlayOps, {NoStore})

NextPlay ==
  \/ UserCall(LoadCall(1))
  \/ UserCall(togglePlayPause)
  \/ \E c \in InFlight, ok \in BOOLEAN : Internal(LoadCreated(c, ok))
  \/ \E c \in InFlight : Internal(LoadRestore(c))
  \/ Internal(PromptTick)
  \/ Internal(PollResolve)
  \/ \E s \in Sounds : Internal(onPlaybackStatusUpdate(s))

SpecPlay == InitPlay /\ [][NextPlay]_vars

\* The app started again after an earlier run left a record for podcast 1, at
\* the restore threshold or one poll period above it (AsyncStorage outlives
\* the process).
ResumeOps == 2
ResumeStores ==
  {[NoStore EXCEPT ![1] = [position |-> x, duration |-> LongTicks * PollMs]] :
     x \in {RestoreThreshold, RestoreThreshold + PollMs}}
InitResume == InitWith(LongTicks, ResumeOps, ResumeStores)

SpecResume == InitResume /\ [][Next]_vars

\* A listener who leaves podcast 1 and comes back to it: the screens load,
\* seek and stop; lastStop observes the position a stopPlayback saved when no
\* other handler was in flight, until a call other than a loadPodcast of the
\* same podcast made after the stop has returned, or a failed read, ends the
\* round trip.
RoundOps == 4
RoundCall(A, seen) == ops < budget /\ ops' = ops + 1 /\ lastStop' = seen /\ A
InitRound == InitWith(LongTicks, RoundOps, {NoStore})

NextRound ==
  \/ RoundCall(LoadCall(1),
               IF calls = EmptyBag /\ lastStop.item = 1 THEN lastStop ELSE NoStop)
  \/ \E ok \in BOOLEAN :
       RoundCall(StopCall(ok),
                 IF ok /\ calls = EmptyBag /\ Loaded(sound) /\ position > RestoreThreshold
                 THEN [item |-> currentPodcast, pos |-> position] ELSE NoStop)
  \/ \E x \in SeekArgs : RoundCall(seekTo(x), NoStop)
  \/ \E c \in InFlight : Internal(LoadCreateFails(c))
  \/ \E c \in InFlight : Internal(LoadCreated(c, TRUE))
  \/ \E c \in InFlight : ops' = ops /\ lastStop' = NoStop /\ LoadCreated(c, FALSE)
  \/ \E c \in InFlight : Internal(LoadRestore(c))
  \/ \E c \in InFlight : Internal(LoadSeeked(c))
  \/ \E c \in InFlight : Internal(StopUnload(c))
  \/ \E c \in InFlight : Internal(StopDone(c))
  \/ \E c \in InFlight : Internal(SeekDone(c))
  \/ \E ok \in BOOLEAN : Internal(Tick(ok))
  \/ \E s \in Sounds : Internal(onPlaybackStatusUpdate(s))

SpecRound == InitRound /\ [][NextRound]_vars

\* A listener with podcast 1 longer than the skip offset and a record left near
\* its end, who also has the short podcast 2: the screens load, play and skip,
\* each call made after the handler called before has returned.
SkipTicks == 34
SkipOps == 4
SkipStore ==
  [NoStore EXCEPT ![1] = [position |-> (SkipTicks - 1) * PollMs,
                          duration |-> SkipTicks * PollMs]]
InitSkip == InitWith(SkipTicks, SkipOps, {SkipStore})
SeqCall(A) == calls = EmptyBag /\ UserCall(A)

NextSkip ==
  \/ \E p \in {1, 2} : SeqCall(LoadCall(p))
  \/ SeqCall(togglePlayPause)
  \/ SeqCall(skipForward)
  \/ SeqCall(skipBackward)
  \/ \E c \in InFlight : Internal(LoadUnload(c))
  \/ \E c \in InFlight : Internal(LoadRelease(c))
  \/ \E c \in InFlight : Internal(LoadCreated(c, TRUE))
  \/ \E c \in InFlight : Internal(LoadRestore(c))
  \/ \E c \in InFlight : Internal(LoadSeeked(c))
  \/ \E c \in InFlight : Internal(SeekDone(c))
  \/ Internal(Tick(TRUE))
  \/ Internal(PollResolve)
  \/ \E s \in Sounds : Internal(onPlaybackStatusUpdate(s))

SpecSkip == InitSkip /\ [][NextSkip]_vars

\* A device whose AsyncStorage rejects every setItem: the store keeps what it
\* held.  The screens load, play and stop, each call made after the handler
\* called before has returned.
FailOps == 4
InitFail == InitWith(LongTicks, FailOps, {NoStore})

NextFail ==
  \/ \E p \in {1, 2} : SeqCall(LoadCall(p)) /\ store' = store
  \/ SeqCall(StopCall(FALSE))
  \/ SeqCall(togglePlayPause)
  \/ \E c \in InFlight : Internal(LoadUnload(c))
  \/ \E c \in InFlight : Internal(LoadRelease(c))
  \/ \E c \in InFlight : Internal(LoadCreated(c, TRUE))
  \/ \E c \in InFlight : Internal(LoadRestore(c))
  \/ \E c \in InFlight : Internal(StopUnload(c))
  \/ \E c \in InFlight : Internal(StopDone(c))
  \/ Internal(Tick(FALSE))
  \/ Internal(PollResolve)
  \/ \E s \in Sounds : Internal(onPlaybackStatusUpdate(s))

SpecFail == InitFail /\ [][NextFail]_vars

\* Sequential use with a restorable record for every playable podcast and an
\* AsyncStorage whose getItem always rejects.
ReadOps == 3
ReadStore ==
  [p \in Podcasts |->
     IF HasUrl(p)
     THEN [position |-> RestoreThreshold + PollMs, duration |-> LongTicks * PollMs]
     ELSE NoRec]
InitReadFail == InitWith(LongTicks, ReadOps, {ReadStore})

NextReadFail ==
  \/ \E p \in {1, 2} : SeqCall(LoadCall(p))
  \/ SeqCall(togglePlayPause)
  \/ \E c \in InFlight : Internal(LoadUnload(c))
  \/ \E c \in InFlight : Internal(LoadRelease(c))
  \/ \E c \in InFlight : Internal(LoadCreated(c, FALSE))
  \/ \E c \in InFlight : Internal(LoadRestore(c))
  \/ \E ok \in BOOLEAN : Internal(Tick(ok))
  \/ Internal(PollResolve)
  \/ \E s \in Sounds : Internal(onPlaybackStatusUpdate(s))

SpecReadFail == InitReadFail /\ [][NextReadFail]_vars

\* Sequential loads and toggles, with stopPlayback called only while a
\* loadPodcast that replaces a sound is suspended in createAsync, after its
\* setSound(null): that stopPlayback sees no sound and resets at once.
RaceOps == 3
LoadSuspended ==
  \E c \in InFlight : c.kind = "load" /\ c.pc = "creating" /\ c.s0 # 0
InitRace == InitWith(LongTicks, RaceOps, ResumeStores)

NextRace ==
  \/ \E p \in {1, 2} : SeqCall(LoadCall(p))
  \/ SeqCall(togglePlayPause)
  \/ LoadSuspended /\ UserCall(StopCall(TRUE))
  \/ \E c \in InFlight : Internal(LoadUnload(c))
  \/ \E c \in InFlight : Internal(LoadRelease(c))
  \/ \E c \in InFlight : Internal(LoadCreated(c, TRUE))
  \/ \E c \in InFlight : Internal(LoadRestore(c))
  \/ \E c \in InFlight : Internal(LoadSeeked(c))
  \/ Internal(Tick(TRUE))
  \/ Internal(PollResolve)
  \/ \E s \in Sounds : Internal(onPlaybackStatusUpdate(s))

SpecRace == InitRace /\ [][NextRace]_vars

\* ================================================================ claims
Idle == currentPodcast = 0 /\ ~isPlaying /\ position = 0 /\ duration = 0 /\ ~showPlayer

\* C1: in every reachable state at most one audio resource is allocated and
\* not yet unloaded, also when loadPodcast is called while an earlier call is
\* suspended at one of its awaits.
C1_AtMostOneResource == Cardinality(Allocated) <= 1

\* C2: loadPodcast(p) called while p is the current podcast and a sound is held
\* sets showPlayer and changes nothing else: no unload, create or seek reaches a
\* sound, nothing is written to the store, no call stays suspended, and
\* position, duration, isPlaying and currentPodcast keep their values.
C2_IdempotentReload ==
  [][\A p \in Podcasts :
       (currentPodcast = p /\ sound # 0 /\ LoadCall(p))
         => /\ showPlayer'
            /\ UNCHANGED <<currentPodcast, sound, isPlaying, position, duration,
                           playbackRate, snd, store, calls, saveLeft, saveDur, pollWait>>]_vars

C2_Witness == ev = "loadSame" /\ position > RestoreThreshold /\ Loaded(sound)

\* C3 (under SpecPlay, where podcast 1 is loaded and played without a pause):
\* once the polled position shows more than one autosave period of playback,
\* the autosave interval has fired and written podcast 1's record.
C3_AutosaveWhilePlaying ==
  (isPlaying /\ currentPodcast = 1 /\ position >= (SaveTicks + 1) * PollMs)
    => store[1] # NoRec

\* C4: when stopPlayback has completed, currentPodcast is null, isPlaying is
\* false, position and duration are 0, showPlayer is false and the session
\* holds no sound.
C4_StopClearsState == ev = "stopDone" => (Idle /\ sound = 0)

C4_Witness == ev = "stopDone" /\ \E s \in Sounds : snd[s].st = "unloaded"

\* C5: when createAsync fails in a loadPodcast that started with no sound or
\* has released the old one (no other handler being suspended), the session is
\* idle afterwards: no sound is held, currentPodcast is null and isPlaying is
\* false.
C5_LoadFailureIdle ==
  (ev = "createFailed" /\ sound = 0 /\ calls = EmptyBag)
    => (currentPodcast = 0 /\ ~isPlaying)

\* C6: no step of a loadPodcast call for a podcast without audio_url changes a
\* session field, unloads a sound or writes a record.
MissingUrlStep ==
  \/ \E p \in Podcasts : ~HasUrl(p) /\ LoadCall(p)
  \/ \E c \in InFlight : /\ c.kind = "load" /\ ~HasUrl(c.podcast)
                         /\ LoadUnload(c) \/ LoadRelease(c) \/ LoadCreateFails(c)
C6_MissingUrlNoLoad ==
  [][MissingUrlStep => UNCHANGED <<react, snd, store>>]_vars

\* C7 (under SpecResume): a loadPodcast that has created its sound restores the
\* stored position p exactly when p is above the threshold: its read yields p
\* then and 0 for a record at or below the threshold or for no record; with a
\* position to restore it seeks the new sound there and sets position to it;
\* with none it seeks no sound and leaves position alone.
Restorable(p) == store[p] # NoRec /\ store[p].position > RestoreThreshold
C7_ThresholdRestore ==
  [][\A c \in InFlight :
       /\ LoadCreated(c, TRUE) =>
            \E d \in BagToSet(calls') :
              /\ d.pc = "reading" /\ d.ns = sound' /\ snd'[d.ns].pos = 0
              /\ d.arg = IF Restorable(c.podcast) THEN store[c.podcast].position ELSE 0
       /\ LoadRestore(c) =>
            IF c.arg > RestoreThreshold /\ Loaded(c.ns)
            THEN snd'[c.ns].pos = Min(c.arg, audioMs[c.podcast]) /\ ev' = "loadSeek"
            ELSE snd' = snd /\ position' = position
       /\ LoadSeeked(c) => position' = c.arg /\ c.arg > RestoreThreshold]_vars

C7_Witness ==
  /\ ev = "loadDone" /\ Loaded(sound) /\ currentPodcast = 1
  /\ position = RestoreThreshold + PollMs /\ snd[sound].pos = position

\* C8 (under SpecRound): with storage writing and reading, a stopPlayback called
\* on loaded podcast A at position p above the threshold, followed by
\* loadPodcast(A), ends with position = p and the new sound sought to p.
C8_StopReloadRoundTrip ==
  (ev = "loadDone" /\ lastStop # NoStop /\ currentPodcast = lastStop.item) =>
    /\ position = lastStop.pos
    /\ Loaded(sound) /\ snd[sound].item = lastStop.item
    /\ snd[sound].pos = Min(lastStop.pos, audioMs[lastStop.item])

C8_Witness ==
  /\ ev = "loadDone" /\ lastStop # NoStop /\ currentPodcast = lastStop.item
  /\ position = lastStop.pos /\ Loaded(sound) /\ snd[sound].pos = position

\* C9: when the session's sound delivers a status with didJustFinish, isPlaying
\* becomes false and position 0, while currentPodcast stays set and the sound
\* stays loaded: the step unloads nothing.
C9_CompletionResets ==
  [][\A s \in Sounds :
       (s = sound /\ snd[s].fin /\ onPlaybackStatusUpdate(s)) =>
         /\ ~isPlaying' /\ position' = 0
         /\ currentPodcast # 0 /\ currentPodcast' = currentPodcast
         /\ sound' = sound /\ snd'[s].st = "loaded"
         /\ \A t \in Sounds : snd'[t].st = snd[t].st]_vars

C9_Witness ==
  /\ ev = "finished" /\ Loaded(sound) /\ snd[sound].pos = audioMs[currentPodcast]
  /\ ~isPlaying /\ position = 0 /\ duration = audioMs[currentPodcast]

\* C10: at all times position >= 0, and position <= duration whenever
\* duration > 0.
C10_PositionInBounds == position >= 0 /\ (duration > 0 => position <= duration)

\* C11 (under SpecSkip): with a sound loaded, skipBackward seeks to
\* max(position - 15000, 0) and skipForward to min(position + 15000, duration),
\* and the position either of them asks for is never negative and, once the
\* duration is known, never beyond it.
SkipIssues(x) ==
  \E d \in BagToSet(calls') :
    /\ d.kind = "seek" /\ d.arg = x
    /\ CopiesIn(d, calls') = CopiesIn(d, calls) + 1
    /\ x >= 0 /\ (duration > 0 => x <= duration)
C11_SkipClamping ==
  [][/\ (Loaded(sound) /\ skipBackward) => SkipIssues(Max(position - SkipMs, 0))
     /\ (Loaded(sound) /\ skipForward) => SkipIssues(Min(position + SkipMs, duration))]_vars

\* C12 (under SpecSkip): a loadPodcast of a podcast other than the loaded one,
\* called while a sound is held (paused or playing), ends with currentPodcast
\* the new podcast, showPlayer true, isPlaying false and the new sound loaded
\* and not playing.
C12_SwitchEndsPaused ==
  [][\A c \in InFlight :
       ((LoadRestore(c) \/ LoadSeeked(c)) /\ ev' = "loadDone" /\ c.s0 # 0) =>
         /\ currentPodcast' = c.podcast /\ showPlayer' /\ ~isPlaying'
         /\ sound' = c.ns /\ snd'[c.ns].st = "loaded"
         /\ snd'[c.ns].item = c.podcast /\ ~snd'[c.ns].playing
         /\ snd'[c.s0].st = "unloaded"]_vars

C12_Witness ==
  /\ ev = "loadDone" /\ currentPodcast = 1 /\ Loaded(sound) /\ ~isPlaying
  /\ duration = audioMs[2] /\ store[2] # NoRec /\ store[2].position = PollMs

\* C13: once setRate(r) has been called, the next sound loadPodcast creates is
\* initialised with rate r: a createAsync issued after the unload of the old
\* sound carries the playbackRate of that moment, the sound it yields has the
\* rate it was issued with, and playbackRate stays r through the steps of
\* loadPodcast and stopPlayback.
C13_RatePersists ==
  [][/\ \A c \in InFlight :
          /\ LoadRelease(c) => [c EXCEPT !.pc = "creating", !.r0 = playbackRate] \in BagToSet(calls')
          /\ (\E ok \in BOOLEAN : LoadCreated(c, ok)) => snd'[sound'].rate = c.r0
     /\ (\A r \in Rates : ~setRate(r)) => playbackRate' = playbackRate]_vars

\* C14: togglePlayPause writes no session field; isPlaying changes only in a
\* step that delivers a sound's status to onPlaybackStatusUpdate (the first
\* status of a created sound included) or in stopPlayback's reset, so after a
\* togglePlayPause it keeps its value until the next status callback.
StatusDelivered ==
  \/ \E s \in Sounds : onPlaybackStatusUpdate(s)
  \/ \E c \in InFlight, ok \in BOOLEAN : LoadCreated(c, ok)
StopResets ==
  \/ sound = 0 /\ StopCall(TRUE)
  \/ \E c \in InFlight : StopDone(c)
C14_PlayingNotOptimistic ==
  [][/\ togglePlayPause => UNCHANGED react
     /\ isPlaying' # isPlaying => (StatusDelivered \/ StopResets)]_vars

C14_Witness == ev = "toggle" /\ Loaded(sound) /\ snd[sound].playing /\ ~isPlaying

\* C15: togglePlayPause, seekTo, skipForward and skipBackward called while the
\* session holds no sound change no session field, reach no sound, suspend at
\* no await and raise no error.
TransportCall ==
  \/ togglePlayPause
  \/ \E x \in SeekArgs : seekTo(x)
  \/ skipForward
  \/ skipBackward
C15_TransportNoOps ==
  [][(sound = 0 /\ TransportCall) =>
       /\ UNCHANGED <<react, snd, store, calls, saveLeft, saveDur, pollWait>>
       /\ ev' \in {"toggleNoSound", "seekNoSound"}]_vars

C15_Witness == ev = "seekNoSound" /\ sound = 0 /\ currentPodcast # 0

\* C16 (under SpecFail, where every write of a position record fails): a
\* stopPlayback or loadPodcast whose save failed is still running after the
\* save, unloads the sound and reaches its normal end, idle and without a
\* sound after stopPlayback, the requested podcast loaded after loadPodcast;
\* no step rejects.
C16_SaveFailureNoBlock ==
  /\ ev = "stopCall" => \E c \in InFlight : c.kind = "stop" /\ c.pc = "saved"
  /\ ev = "loadCall" => \E c \in InFlight : c.kind = "load"
  /\ ev = "stopDone" => (Idle /\ sound = 0 /\ Allocated = {})
  /\ ev = "loadDone" => /\ currentPodcast # 0 /\ showPlayer /\ Loaded(sound)
                        /\ snd[sound].item = currentPodcast /\ Allocated = {sound}
  /\ ev \notin {"restoreFailed", "seekRejected", "createFailed"}

C16_Witness ==
  /\ ev = "loadDone" /\ currentPodcast = 2 /\ Loaded(sound) /\ position > 0
  /\ store = NoStore /\ \E s \in Sounds : snd[s].st = "unloaded"

\* C17 (under SpecSkip): from a state with isPlaying true to a state with
\* isPlaying true, by a step taken while no seekTo, skip, loadPodcast or
\* stopPlayback is called or in progress, position does not decrease.
HandlerStep ==
  \/ calls # EmptyBag                  \* a handler is suspended at an await
  \/ \E p \in Podcasts : LoadCall(p)
  \/ \E ok \in BOOLEAN : StopCall(ok)
  \/ TransportCall /\ ~togglePlayPause
C17_MonotoneWhilePlaying ==
  [][(isPlaying /\ isPlaying' /\ ~HandlerStep) => position' >= position]_vars

\* C18 (under SpecResume): when stopPlayback is called with a podcast loaded
\* and position = p, whatever p is, and its write succeeds, the record stored
\* under that podcast's id afterwards has position p.
C18_StopPersistsPosition ==
  [][(Loaded(sound) /\ currentPodcast # 0 /\ StopCall(TRUE)) =>
       (store'[currentPodcast] # NoRec /\ store'[currentPodcast].position = position)]_vars

\* C19: setRate(r) always sets playbackRate to r; with a sound loaded it changes
\* that sound's rate and nothing else of any sound (none is unloaded, created,
\* played, paused or sought), and it leaves isPlaying, position, duration,
\* currentPodcast and showPlayer unchanged.
SoundsKeep(rateOf) ==
  \A s \in Sounds :
    /\ snd'[s].st = snd[s].st /\ snd'[s].item = snd[s].item
    /\ snd'[s].playing = snd[s].playing /\ snd'[s].pos = snd[s].pos
    /\ snd'[s].rate = rateOf[s]
C19_SetRateLive ==
  [][\A r \in Rates :
       setRate(r) =>
         /\ playbackRate' = r
         /\ SoundsKeep([s \in Sounds |-> IF s = sound /\ Loaded(s) THEN r ELSE snd[s].rate])
         /\ UNCHANGED <<currentPodcast, sound, isPlaying, position, duration, showPlayer,
                        store, calls>>]_vars

C19_Witness ==
  /\ ev = "setRate" /\ playbackRate = 2 /\ Loaded(sound)
  /\ snd[sound].rate = 2 /\ snd[sound].playing /\ snd[sound].pos > 0

\* C20: within one loadPodcast that replaces a loaded podcast the steps come in
\* the order: save the old podcast's position under the old id, unload the old
\* sound, create the new sound.  The call step writes at most the old
\* podcast's record and touches no sound; the unload step comes after it and
\* writes no record; createAsync is issued and resolves only with the old
\* sound unloaded.
C20_LoadOrdering ==
  [][/\ \A p \in Podcasts :
          (sound # 0 /\ ~SameLoaded(p) /\ LoadCall(p)) =>
            /\ snd' = snd
            /\ \A q \in Podcasts : q # currentPodcast => store'[q] = store[q]
     /\ \A c \in InFlight :
          /\ LoadUnload(c) =>
               (store' = store /\ snd'[c.s0].st = "unloaded" /\ Allocated' \subseteq Allocated)
          /\ LoadRelease(c) =>
               (store' = store /\ snd' = snd /\ snd[c.s0].st = "unloaded")
          /\ ((\E ok \in BOOLEAN : LoadCreated(c, ok)) /\ c.s0 # 0) =>
               (store' = store /\ snd[c.s0].st = "unloaded")]_vars

C20_Witness ==
  /\ ev = "loadCreated" /\ currentPodcast = 2 /\ Loaded(sound)
  /\ store[1] # NoRec /\ \E s \in Sounds : snd[s].st = "unloaded"

\* C21: the position updater's interval runs only while a sound is held and
\* isPlaying is true, and it is cleared as soon as the sound is unloaded: every
\* poll tick that issues getStatusAsync does so with isPlaying true and against
\* a sound that is loaded.
C21_PollTimerLifecycle ==
  [][((\E ok \in BOOLEAN : Tick(ok)) /\ pollWait' # 0) =>
       (isPlaying /\ pollWait' = sound /\ snd[sound].st = "loaded")]_vars
\* A poll result or a status delivered for a sound that is no longer loaded.
StaleEvent ==
  \/ PollResolve /\ ~Loaded(pollWait)
  \/ \E s \in Sounds : ~Loaded(s) /\ onPlaybackStatusUpdate(s)

C23_AutosaveCancelled ==
  [][/\ currentPodcast' = 0 => saveLeft' = 0
     /\ store' # store =>
          /\ currentPodcast # 0
          /\ \A p \in Podcasts \ {currentPodcast} : store'[p] = store[p]]_vars

\* After a switch from podcast 1 to podcast 2 the autosave tick wrote podcast
\* 2's record and left podcast 1 without one.
C23_Witness ==
  /\ ev = "autosave"
  /\ currentPodcast = 2
  /\ \E s \in Sounds : snd[s].st = "unloaded"
  /\ store[2] # NoRec
  /\ store[1] = NoRec
\* C24: when the sound held in the session reports didJustFinish, the handler
\* issues setPositionAsync(0) to that same sound, so the sound itself is back
\* at 0 and the next togglePlayPause plays the podcast from the start.
C24_ReplayFromStart ==
  [][\A s \in Sounds :
       (s = sound /\ snd[s].fin /\ onPlaybackStatusUpdate(s)) =>
         snd'[s].pos = 0]_vars
\* C25: every togglePlayPause with a loaded sound inverts the state of the
\* sound itself (pauses it when it is playing, plays it when it is paused),
\* also when the status of the previous toggle has not been delivered yet.
C25_ToggleInverts ==
  [][(togglePlayPause /\ Loaded(sound)) =>
       snd'[sound].playing = ~snd[sound].playing]_vars
\* C26: when the read of the position record fails during loadPodcast, the load
\* still completes normally: no seek is issued and no handler ends in its catch,
\* and at completion the new sound is held, loaded and untouched at 0, the
\* current podcast is the requested one and the player is shown.
C26_ReadFailureNonFatal ==
  /\ ev \notin {"loadSeek", "restoreFailed", "createFailed"}
  /\ ev = "loadDone" =>
       /\ calls = EmptyBag
       /\ Loaded(sound) /\ snd[sound].pos = 0
       /\ currentPodcast # 0 /\ snd[sound].item = currentPodcast
       /\ showPlayer

\* A switch to podcast 2 completed although its stored record could not be read.
C26_Witness ==
  /\ ev = "loadDone"
  /\ currentPodcast = 2 /\ Loaded(sound) /\ showPlayer
  /\ store[2].position > RestoreThreshold
  /\ \E s \in Sounds : snd[s].st = "unloaded"
\* C27: the record under a podcast's key holds a position the session observed
\* for that podcast. In sequential use, while the current podcast's sound rests
\* at 0 (nothing restored, nothing in flight) no position has been observed for
\* it, so no step writes a record under its key: not the autosave tick after a
\* switch, and not the save of the next loadPodcast.
C27_RecordProvenance ==
  [][(/\ calls = EmptyBag
      /\ currentPodcast # 0 /\ Loaded(sound)
      /\ snd[sound].item = currentPodcast
      /\ snd[sound].pos = 0) =>
       store'[currentPodcast] = store[currentPodcast]]_vars
\* C28: when a loadPodcast that replaced another podcast completes without a
\* position to restore, the session shows position 0 and a duration that is
\* unknown (0) or the new podcast's own, never the replaced podcast's values.
C28_NoStaleAfterSwitch ==
  [][\A c \in InFlight :
       (LoadRestore(c) /\ ev' = "loadDone" /\ c.s0 # 0) =>
         /\ position' = 0
         /\ duration' \in {0, audioMs[c.podcast]}]_vars
\* C29: skipForward with a loaded sound never moves backwards: the position it
\* seeks to, which it then stores as the session's position, is at least the
\* position before the call, also right after a load that restored a position
\* while duration is still 0.
C29_SkipForwardMonotone ==
  [][(skipForward /\ Loaded(sound)) =>
       \A d \in BagToSet(calls') : d.kind = "seek" => d.arg >= position]_vars
\* Under SpecRace a held sound goes with a shown player whenever no handler is
\* in flight, so a replacing load that completes from a hidden player is one
\* during which stopPlayback has reset the session.
RaceShownWhenHeld == (calls = EmptyBag /\ sound # 0) => showPlayer

\* C30: when stopPlayback is called while a loadPodcast is suspended between
\* releasing the old sound and storing the new one, then once both calls have
\* completed the session is idle and no sound remains allocated.
C30_StopDuringLoad ==
  [][\A c \in InFlight :
       (/\ LoadRestore(c) \/ LoadSeeked(c)
        /\ calls' = EmptyBag
        /\ c.s0 # 0 /\ ~showPlayer) =>
         (Idle' /\ sound' = 0 /\ Allocated' = {})]_vars

====
